---- MODULE Spec2Model ----
(***************************************************************************)
(* A model of the video summarizer of react_dashboard.                     *)
(*                                                                         *)
(* Part 1, the client Retry/Cooldown controller (the YoutubeSummarizer     *)
(* component, src/unnamed/part_000).  The React state of the component is  *)
(* the variables url .. isRetrying.  Every JavaScript callback runs to     *)
(* completion: a click handler, a timer callback, the continuation of the  *)
(* awaited fetch, and the passive effect of useEffect are the steps.  The  *)
(* state updates a callback makes are batched and committed together.  The *)
(* effect of useEffect([retryCountdown]) runs after the commit of a render *)
(* that changed retryCountdown: at once when the render comes from a click *)
(* (a discrete event), and deferred past the paint when it comes from a    *)
(* timer callback or from a promise continuation; a deferred effect is     *)
(* flushed, with the closure of the render it belongs to, before the next  *)
(* render at the latest, that is after the body of whatever callback runs  *)
(* first.                                                                   *)
(***************************************************************************)
EXTENDS Integers, Sequences, FiniteSets, Bags, TLC

\* The state of the component.  Its videoId only selects the player that is
\* embedded; no handler and no effect reads it, and it is left out here.
VARIABLES
    url,              \* useState("") : the reference in the input field
    loading,          \* useState(false)
    error,            \* useState("") : the status line
    result,           \* useState(null) : the displayed result
    retryCountdown,   \* useState<number | null>(null)
    isRetrying,       \* useState(false)
    timer,            \* the pending setTimeout of the effect: the value it captured
    effectPending,    \* the effect of the last commit has not run yet
    inflight,         \* the summarize requests sent and not yet answered
    rateLimited,      \* how many 429 responses have been delivered
    autoSent,         \* history: how many automatic re-submissions were sent
    cd                \* history: the cooldown started by the last 429

cvars == <<url, loading, error, result, retryCountdown, isRetrying, timer,
           effectPending, inflight, rateLimited, autoSent, cd>>

\* the summarize handler (Part 2)
VARIABLES
    variant,         \* which version of the handler serves the request
    session,         \* the session of the sender of the request
    child,           \* the yt-dlp child process: "none", "running", "closed"
    captionTracks,   \* the languageCode of each caption track of the video
    track,           \* Null, 0 (list read, no track), or the track fetched
    dl,              \* the download of downloadAudioStream: stream, promise, timer
    reqUrl,          \* the url of the request body
    apiKey,          \* process.env.GEMINI_API_KEY is set
    ytdlpExists,     \* the yt-dlp executable is at YTDLP_PATH
    pc,              \* the stage the handler is at
    videoId,         \* "" when the pattern does not match
    transcriptText,  \* the length of the string; 0 is ""
    audioBuffer,     \* Null, or the length of the buffer in bytes
    calls,           \* the acquirers invoked so far, with what they returned
    genCalls,        \* the calls of model.generateContent so far
    response         \* the response sent, NoResponse before

svars == <<variant, session, child, captionTracks, track, dl, reqUrl, apiKey, ytdlpExists, pc,
           videoId, transcriptText, audioBuffer, calls, genCalls, response>>

\* the accounts (Part 4)
VARIABLES
    users,           \* the users table, a row or NoUser for each email
    tokens,          \* the session tokens issued by sign-in
    approved,        \* history: the users an administrator has approved
    reply            \* history: the last answer of an account operation

avars == <<users, tokens, approved, reply>>

vars == <<cvars, svars, avars>>

\* null, for retryCountdown and for the timer
Null == -1

\* setRetryCountdown(30)
CooldownSeconds == 30

\* how many 429 responses the server gives in one run
MaxRateLimited == 2

\* the same, for the runs in which three cooldowns follow one another
MaxRateLimitedDeep == 3

\* what the input field holds: empty, as at mount, or a reference
Urls == {"", "https://youtu.be/abc12345678"}

RetryCancelledMsg == "Retry cancelled."
RateLimitMsg == "Rate limit reached. Retrying..."

\* the error strings the summarize handlers put in a body
DataErrors == {"Invalid YouTube URL"}

NoResult == [kind |-> "null"]

\* A response: its status (0 stands for a fetch that rejects), data.transcript
\* truthy or not, data.error ("" when absent).
Resp(s, t, e) == [status |-> s, transcript |-> t, error |-> e]

Responses ==
    {Resp(0, FALSE, "")}
    \cup {Resp(200, t, "") : t \in BOOLEAN}
    \cup {Resp(429, t, e) : t \in BOOLEAN, e \in DataErrors \cup {""}}
    \cup {Resp(400, FALSE, e) : e \in DataErrors}
    \cup {Resp(500, FALSE, e) : e \in DataErrors \cup {""}}
    \cup {Resp(504, FALSE, "")}

Body(resp) == [kind |-> "data", transcript |-> resp.transcript, error |-> resp.error]

Cur == [url |-> url, loading |-> loading, error |-> error, result |-> result,
        retryCountdown |-> retryCountdown, isRetrying |-> isRetrying]

----------------------------------------------------------------------------
(* handleSummarize, up to the fetch *)

handleSummarizeStart(q, isRetry) ==
    [q EXCEPT !.error = IF isRetry THEN @ ELSE "",
              !.result = IF isRetry THEN @ ELSE NoResult,
              !.loading = TRUE,
              !.retryCountdown = Null,
              !.isRetrying = isRetry]

\* The request: the url of the closure that sent it, and what the finally
\* block of that closure will read, retryCountdown === null.
\* History: what sent it ("click", "manual" for Retry Now, "auto" for the
\* effect at zero) and, for an automatic one, the cooldown c it belongs to.
Request(S, isRetry, cause, c) ==
    [url |-> S.url, isRetry |-> isRetry, ccNull |-> (S.retryCountdown = Null),
     cause |-> cause,
     cdUrl |-> IF cause = "auto" THEN c.url ELSE "-",
     afterCancel |-> IF cause = "auto" THEN c.cancelled ELSE "no",
     afterManual |-> IF cause = "auto" THEN c.manual ELSE FALSE,
     nth |-> IF cause = "auto" THEN c.autos + 1 ELSE 0]

(* handleSummarize, from the response on *)

ResponseOk(resp) == resp.status >= 200 /\ resp.status <= 299

handleSummarizeResponse(q, req, resp) ==
    LET \* the message of the error thrown for a response that is not ok
        ErrMessage(r) ==
            IF r.status = 0 THEN "Failed to fetch"
            ELSE IF r.status = 429
                 THEN (IF r.error # "" THEN r.error ELSE RateLimitMsg)
            ELSE IF r.status = 504 THEN "The request timed out."
            ELSE (IF r.error # "" THEN r.error ELSE "Failed to summarize video.")
        \* setRetryCountdown(30); if (data.transcript) setResult(data)
        OnRateLimited(st, r) ==
            [st EXCEPT !.retryCountdown = CooldownSeconds,
                       !.result = IF r.transcript THEN Body(r) ELSE @]
        \* if (!err.message.includes("Retrying...")) setError(err.message)
        OnCatch(st, msg) ==
            IF msg = RateLimitMsg THEN st ELSE [st EXCEPT !.error = msg]
        \* if (retryCountdown === null) { setLoading(false); setIsRetrying(false) }
        OnFinally(st, rq) ==
            IF rq.ccNull
            THEN [st EXCEPT !.loading = FALSE, !.isRetrying = FALSE]
            ELSE st
        tried == IF resp.status = 0 THEN q
                 ELSE IF ResponseOk(resp)
                      THEN [q EXCEPT !.result = Body(resp), !.retryCountdown = Null]
                 ELSE IF resp.status = 429 THEN OnRateLimited(q, resp)
                 ELSE q
        caught == IF ResponseOk(resp) THEN tried ELSE OnCatch(tried, ErrMessage(resp))
    IN  OnFinally(caught, req)

\* cancelRetry without setRetryCountdown(null)
cancelRetry_KeepsCountdown(q) ==
    [q EXCEPT !.loading = FALSE,
              !.isRetrying = FALSE,
              !.error = RetryCancelledMsg]

cancelRetry(q) ==
    [q EXCEPT !.retryCountdown = Null,
              !.loading = FALSE,
              !.isRetrying = FALSE,
              !.error = RetryCancelledMsg]

----------------------------------------------------------------------------
(* useEffect(..., [retryCountdown]) *)

\* return () => clearTimeout(timer)
EffectCleanup(tm) == Null

\* The effect of the render whose state is S, run with q the updates queued
\* so far and tm the timer pending: the timer that is pending afterwards, the
\* updates queued afterwards and the requests sent.
\* c is the history of the cooldown.
useEffectRetry(S, q, tm, c) ==
    IF S.retryCountdown # Null /\ S.retryCountdown > 0
    THEN [st |-> q, timer |-> S.retryCountdown, reqs |-> {}]
    ELSE IF S.retryCountdown = 0
         THEN [st |-> handleSummarizeStart(q, TRUE), timer |-> EffectCleanup(tm),
               reqs |-> {Request(S, TRUE, "auto", c)}]
    ELSE [st |-> q, timer |-> EffectCleanup(tm), reqs |-> {}]

\* A deferred effect is flushed before the next render.
FlushPassive(S, q, tm, c) ==
    IF effectPending THEN useEffectRetry(S, q, tm, c)
    ELSE [st |-> q, timer |-> tm, reqs |-> {}]

\* The commit of a render: n the new state, S the state of the last commit,
\* tm the timer pending.  The effect runs when retryCountdown changed; every
\* click handler leaves retryCountdown null, so the effect of a discrete
\* render only clears the timer.
Commit(n, S, discrete, tm) ==
    /\ url' = n.url
    /\ loading' = n.loading
    /\ error' = n.error
    /\ result' = n.result
    /\ retryCountdown' = n.retryCountdown
    /\ isRetrying' = n.isRetrying
    /\ IF n.retryCountdown = S.retryCountdown
       THEN timer' = tm /\ effectPending' = FALSE
       ELSE IF discrete \/ (n.retryCountdown = Null /\ tm = Null)
            THEN timer' = EffectCleanup(tm) /\ effectPending' = FALSE
            ELSE timer' = tm /\ effectPending' = TRUE

----------------------------------------------------------------------------
(* the callbacks *)

\* History of a cooldown: the url and the body of the request and of the 429
\* response that started it, whether and where Cancel Retry was clicked
\* ("no", "positive" for a countdown above 0, "zero"), whether Retry Now was
\* clicked, and how many automatic re-submissions it sent.
NoCooldown == [url |-> "-", body |-> NoResult, cancelled |-> "no", manual |-> FALSE,
               autos |-> 0]

ClientInit ==
    /\ url = ""
    /\ loading = FALSE
    /\ error = ""
    /\ result = NoResult
    /\ retryCountdown = Null
    /\ isRetrying = FALSE
    /\ timer = Null
    /\ effectPending = FALSE
    /\ inflight = EmptyBag
    /\ rateLimited = 0
    /\ autoSent = 0
    /\ cd = NoCooldown

\* One callback: its updates q and the requests sent by its body, the flush
\* of a deferred effect, and the commit.  c is the history of the cooldown
\* after the body.
Callback(q, sent, discrete, tm, c, rest) ==
    LET S == Cur
        f == FlushPassive(S, q, tm, c)
    IN  /\ Commit(f.st, S, discrete, f.timer)
        /\ inflight' = rest (+) SetToBag(sent) (+) SetToBag(f.reqs)
        /\ autoSent' = autoSent + Cardinality(f.reqs)
        /\ cd' = IF f.reqs = {} THEN c ELSE [c EXCEPT !.autos = @ + 1]

\* onChange of the input
SetUrl(u) ==
    /\ u # url
    /\ Callback([Cur EXCEPT !.url = u], {}, TRUE, timer, cd, inflight)
    /\ UNCHANGED rateLimited
    /\ UNCHANGED svars
    /\ UNCHANGED avars

\* onClick of the main button while it reads Summarize
ClickSummarize ==
    /\ retryCountdown = Null
    /\ ~loading
    /\ Callback(handleSummarizeStart(Cur, FALSE), {Request(Cur, FALSE, "click", cd)},
                TRUE, timer, cd, inflight)
    /\ UNCHANGED rateLimited
    /\ UNCHANGED svars
    /\ UNCHANGED avars

\* onClick of the main button while it reads Cancel Retry
ClickCancel ==
    /\ retryCountdown # Null
    /\ Callback(cancelRetry(Cur), {}, TRUE, timer,
                [cd EXCEPT !.cancelled = IF retryCountdown > 0 THEN "positive" ELSE "zero"],
                inflight)
    /\ UNCHANGED rateLimited
    /\ UNCHANGED svars
    /\ UNCHANGED avars

\* onClick of Retry Now
ClickRetryNow ==
    /\ retryCountdown # Null
    /\ Callback(handleSummarizeStart(Cur, TRUE), {Request(Cur, TRUE, "manual", cd)},
                TRUE, timer, [cd EXCEPT !.manual = TRUE], inflight)
    /\ UNCHANGED rateLimited
    /\ UNCHANGED svars
    /\ UNCHANGED avars

\* the callback of setTimeout: setRetryCountdown(retryCountdown - 1)
Tick ==
    /\ timer # Null
    /\ Callback([Cur EXCEPT !.retryCountdown = timer - 1], {}, FALSE, Null, cd, inflight)
    /\ UNCHANGED rateLimited
    /\ UNCHANGED svars
    /\ UNCHANGED avars

\* the deferred effect runs in a task of its own
RunEffect ==
    /\ effectPending
    /\ Callback(Cur, {}, FALSE, timer, cd, inflight)
    /\ UNCHANGED rateLimited
    /\ UNCHANGED svars
    /\ UNCHANGED avars

\* The response to request i arrives.  An automatic re-submission that the
\* flush sends belongs to the cooldown before this response.
Respond(req, resp, max) ==
    /\ resp.status = 429 => rateLimited < max
    /\ LET S == Cur
           f == FlushPassive(S, handleSummarizeResponse(S, req, resp), timer, cd)
       IN  /\ Commit(f.st, S, FALSE, f.timer)
           /\ inflight' = (inflight (-) SetToBag({req})) (+) SetToBag(f.reqs)
           /\ autoSent' = autoSent + Cardinality(f.reqs)
           /\ cd' = IF resp.status = 429 THEN [NoCooldown EXCEPT !.url = req.url, !.body = Body(resp)]
                    ELSE IF f.reqs = {} THEN cd ELSE [cd EXCEPT !.autos = @ + 1]
    /\ rateLimited' = IF resp.status = 429 THEN rateLimited + 1 ELSE rateLimited
    /\ UNCHANGED svars
    /\ UNCHANGED avars

ClientNext ==
    \/ \E u \in Urls : SetUrl(u)
    \/ ClickSummarize
    \/ ClickCancel
    \/ ClickRetryNow
    \/ Tick
    \/ RunEffect
    \/ \E req \in BagToSet(inflight) : \E resp \in Responses :
            Respond(req, resp, MaxRateLimited)

ClientNextDeep ==
    \/ \E u \in Urls : SetUrl(u)
    \/ ClickSummarize
    \/ ClickCancel
    \/ ClickRetryNow
    \/ Tick
    \/ RunEffect
    \/ \E req \in BagToSet(inflight) : \E resp \in Responses :
            Respond(req, resp, MaxRateLimitedDeep)

----------------------------------------------------------------------------
(* Part 2: the summarize handler, POST /api/summarize.

   The repository holds four versions of the handler.  The model runs one
   request through one of them, a stage at a time; every await is the end
   of an action, and what the awaited library, tool or service returns is
   chosen from a small set. *)

RouteTs == "src/app/api/summarize/route.ts"
Part001 == "part_001"
Part002 == "part_002"
Part003 == "part_003"

Variants == {RouteTs, Part001, Part002, Part003}

\* request urls: none, one that is no video reference at all, a shorts link
\* (no match of the handler's pattern, but a valid reference for ytdl-core),
\* and a link the pattern matches
ShortsUrl == "https://www.youtube.com/shorts/abc12345678"
WatchUrl == "https://youtu.be/abc12345678"

\* url.match(/...([a-zA-Z0-9_-]{11})/): the captured group, "" without match
VideoIdOf(u) == IF u = WatchUrl THEN "abc12345678" ELSE ""

\* transcriptText.length > 100
UsableAbove == 100

\* the condition without the threshold
Usable_AnyText(len) == len # 0

\* the condition that no transcript meets
Usable_Never(len) == FALSE

Usable(len) == len # 0 /\ len > UsableAbove

\* audioBuffer.length > 19 * 1024 * 1024
MaxAudioBytes == 19 * 1024 * 1024

\* a prompt that takes the whole transcript
TextBudget_Whole(v) == 1000000

\* transcriptText.substring(0, n)
TextBudget(v) == IF v = Part001 THEN 20000 ELSE 15000

\* lengths of the audio a download may return
AudioSizes == {1024, MaxAudioBytes, MaxAudioBytes + 1}

\* an operation that neither completes nor fails: its promise never settles
Hung == [kind |-> "hung", len |-> 0]

\* where the handler is after an await: at next, or waiting for ever
Awaited(out, next) == IF out = Hung THEN "hung" ELSE next

\* what a transcript acquirer does: it throws, finds nothing, returns text,
\* or never settles
TranscriptOutcomes ==
    {[kind |-> "threw", len |-> 0], [kind |-> "empty", len |-> 0], Hung}
    \cup {[kind |-> "text", len |-> n] : n \in {50, 100, 101, 15001, 20001}}

\* what an audio acquirer does: it rejects, or resolves with the bytes read
Rejected == [kind |-> "threw", len |-> 0]
Bytes(n) == [kind |-> "bytes", len |-> n]

AudioOutcomes(sizes) == {Rejected} \cup {Bytes(n) : n \in sizes}

\* setTimeout(() => { stream.destroy(); reject(new Error("Timeout")); }, ...):
\* a download that never settles is rejected by the timer
TimedOut == [kind |-> "timeout", len |-> 0]

WithTimeout(out) == IF out = Hung THEN TimedOut ELSE out

\* a rejection taken for an empty buffer
BufferOf_RejectionIsBuffer(out) == out.len

BufferOf(out) == IF out.kind = "bytes" THEN out.len ELSE Null

\* The text that the model returns, as a sequence of tokens: the braces, the
\* members of an object ("sn" is a summary and notes that are strings, "snt"
\* the same with a transcript, "x" a member with another key, "bad" a summary
\* and notes that are no strings), a word of prose, and the JSON literal null.
OpenBrace == "{"
CloseBrace == "}"
MemberTokens == {"sn", "snt", "x", "bad"}
NullToken == "null"

\* the longest text of the exhaustive check of extractJson
MaxRawLen == 4

RECURSIVE TextsUpTo(_)
TextsUpTo(n) ==
    IF n = 0 THEN {<<>>}
    ELSE LET shorter == TextsUpTo(n - 1)
         IN  shorter \cup {Append(t, c) : t \in {u \in shorter : Len(u) = n - 1},
                                         c \in {OpenBrace, CloseBrace, "w", NullToken}
                                               \cup MemberTokens}

RawTexts == TextsUpTo(MaxRawLen)

\* the texts the handler is run with
RawSamples ==
    { <<"{", "sn", "}">>, <<"{", "snt", "}">>, <<"w", "{", "sn", "}", "w">>,
      <<"w">>, <<"{", "x", "}">>, <<"{", "bad", "}">>, <<"null">> }

\* what model.generateContent does: it returns text, or throws an error with
\* or without a status; quota says that the message names the quota.
GenError(status, quota) == [ok |-> FALSE, raw |-> <<>>, status |-> status, quota |-> quota]

\* generateContent never settles
GenHung == [ok |-> FALSE, raw |-> <<>>, status |-> Null, quota |-> FALSE]

GenOutcomes(raws) ==
    {[ok |-> TRUE, raw |-> raw, status |-> 0, quota |-> FALSE] : raw \in raws}
    \cup {GenError(429, TRUE), GenError(503, FALSE), GenError(0, FALSE), GenError(0, TRUE)}
    \cup {GenHung}

RateLimited(o) == ~o.ok /\ o.status = 429

NoResponse == [status |-> 0]

\* the transcript field of a body
NoTranscript == [from |-> "absent", len |-> 0]
Acquired(len) == [from |-> "acquired", len |-> len]

\* the notes field of a body: absent, a string of the model, no string, a
\* fixed placeholder, or the raw text
NoNotes == [src |-> "absent", text |-> <<>>]
ModelNotes == [src |-> "model", text |-> <<>>]
PlaceholderNotes == [src |-> "placeholder", text |-> <<>>]
RawNotes(text) == [src |-> "raw", text |-> text]

Json(status, body) == [status |-> status, body |-> body]

\* a body: a JSON object with the fields given ("" for a summary or an error
\* that is absent), or the JSON value null
Object(e, s, n, t) ==
    [kind |-> "object", error |-> e, summary |-> s, notes |-> n, transcript |-> t]

NullValue == [Object("", "", NoNotes, NoTranscript) EXCEPT !.kind = "null"]

ErrorBody(msg) == Object(msg, "", NoNotes, NoTranscript)

Summary(s, n, t) == Object("", s, n, t)

\* text.match(/\{[\s\S]*\}/): the span from the first "{" to the last "}"
FirstOpen(text) ==
    IF \E i \in DOMAIN text : text[i] = OpenBrace
    THEN CHOOSE i \in DOMAIN text :
            text[i] = OpenBrace /\ \A k \in DOMAIN text : text[k] = OpenBrace => i <= k
    ELSE 0

LastClose(text) ==
    IF \E i \in DOMAIN text : text[i] = CloseBrace
    THEN CHOOSE i \in DOMAIN text :
            text[i] = CloseBrace /\ \A k \in DOMAIN text : text[k] = CloseBrace => k <= i
    ELSE 0

JsonMatch(text) == FirstOpen(text) # 0 /\ LastClose(text) > FirstOpen(text)

\* a match that ends at the first "}" after the first "{"
CleanedJson_FirstClose(text) ==
    IF JsonMatch(text)
    THEN SubSeq(text, FirstOpen(text),
                CHOOSE j \in DOMAIN text :
                    /\ j > FirstOpen(text) /\ text[j] = CloseBrace
                    /\ \A k \in DOMAIN text :
                          (k > FirstOpen(text) /\ text[k] = CloseBrace) => j <= k)
    ELSE text

CleanedJson(text) ==
    IF JsonMatch(text) THEN SubSeq(text, FirstOpen(text), LastClose(text)) ELSE text

\* JSON.parse accepts an object, whose members are member tokens and nested
\* objects, and the literal null
RECURSIVE IsObject(_)
RECURSIVE IsMembers(_)
IsObject(t) ==
    /\ Len(t) >= 2
    /\ t[1] = OpenBrace
    /\ t[Len(t)] = CloseBrace
    /\ IsMembers(SubSeq(t, 2, Len(t) - 1))

IsMembers(b) ==
    \/ b = <<>>
    \/ (b[1] \in MemberTokens /\ IsMembers(Tail(b)))
    \/ \E k \in 2..Len(b) : IsObject(SubSeq(b, 1, k)) /\ IsMembers(SubSeq(b, k + 1, Len(b)))

Parseable(t) == IsObject(t) \/ t = <<NullToken>>

\* the members of the object itself, in their order, a later one overriding
RECURSIVE Members(_, _, _)
Members(b, depth, acc) ==
    IF b = <<>> THEN acc
    ELSE IF b[1] = OpenBrace THEN Members(Tail(b), depth + 1, acc)
    ELSE IF b[1] = CloseBrace THEN Members(Tail(b), depth - 1, acc)
    ELSE IF depth # 0 \/ b[1] = "x" THEN Members(Tail(b), depth, acc)
    ELSE IF b[1] = "bad"
         THEN Members(Tail(b), depth,
                      [acc EXCEPT !.summary = "nonstring",
                                  !.notes = [src |-> "nonstring", text |-> <<>>]])
    ELSE Members(Tail(b), depth,
                 [acc EXCEPT !.summary = "ai", !.notes = ModelNotes,
                             !.transcript = IF b[1] = "snt" THEN [from |-> "model", len |-> 0]
                                                            ELSE @])

JsonParse(t) ==
    IF t = <<NullToken>> THEN NullValue
    ELSE Members(SubSeq(t, 2, Len(t) - 1), 0, Object("", "", NoNotes, NoTranscript))

\* a fallback that keeps the matched span only
ParseFallback_KeepsSpan(v, text) ==
    Summary("Summary generation failed.", RawNotes(CleanedJson(text)), NoTranscript)

\* the value returned when JSON.parse throws
ParseFallback(v, text) ==
    IF v = Part003 THEN Summary("Error parsing AI response.", RawNotes(text), NoTranscript)
    ELSE IF v = Part001
         THEN Summary("Summary generation failed.", RawNotes(text),
                      [from |-> "fallback", len |-> 0])
    ELSE Summary("I've generated the summary, but had trouble formatting it as JSON.",
                 RawNotes(text), [from |-> "fallback", len |-> 0])

extractJson(v, text) ==
    IF Parseable(CleanedJson(text)) THEN JsonParse(CleanedJson(text))
    ELSE ParseFallback(v, text)

UrlRequiredMsg == "URL is required"
KeyMissingMsg == "Gemini API Key is not configured"
InvalidUrlMsg == "Invalid YouTube URL"
TooLargeMsg == "Video audio is too large"
AudioFailedMsg == "Failed to process video"
ExhaustedMsg == "Unable to extract content from this video."
ServerErrorMsg == "Server encountered an error processing this request."
UnavailableMsg == "AI Summary Unavailable"

\* the versions that answer 400 when the pattern finds no identifier
RejectsNoId == {Part001, Part003}

\* the versions that go on to the yt-dlp subtitles
HasYtDlpSubtitles == {Part001, Part002}

\* the versions that check the size of the audio
ChecksSize == {RouteTs, Part002}

\* a text branch that spreads the model output over the acquired transcript:
\* { transcript: transcriptText, ...aiData }
TextReply_ModelWins(v, o, len) ==
    IF o.ok
    THEN Json(200, [extractJson(v, o.raw) EXCEPT
                       !.kind = "object",
                       !.transcript = IF @.from = "absent" THEN Acquired(len) ELSE @])
    ELSE IF v = RouteTs
         THEN Json(500, Summary(UnavailableMsg, PlaceholderNotes, Acquired(len)))
    ELSE IF v = Part001 THEN Json(500, ErrorBody(ServerErrorMsg))
    ELSE IF v = Part002
         THEN Json(IF o.status = 429 THEN 429 ELSE IF o.status # 0 THEN o.status ELSE 500,
                   Summary(IF o.status = 429 \/ o.quota THEN "AI Rate Limit Reached"
                                                        ELSE UnavailableMsg,
                           PlaceholderNotes, Acquired(len)))
    ELSE Json(200, Summary("Summary generation failed.", PlaceholderNotes, Acquired(len)))

\* the response of the text branch to what generateContent did
TextReply(v, o, len) ==
    IF o.ok
    THEN \* { ...aiData, transcript: transcriptText }: spreading null adds nothing
         Json(200, [extractJson(v, o.raw) EXCEPT !.kind = "object",
                                                 !.transcript = Acquired(len)])
    ELSE IF v = RouteTs
         THEN Json(500, Summary(UnavailableMsg, PlaceholderNotes, Acquired(len)))
    ELSE IF v = Part001 THEN Json(500, ErrorBody(ServerErrorMsg))
    ELSE IF v = Part002
         THEN Json(IF o.status = 429 THEN 429 ELSE IF o.status # 0 THEN o.status ELSE 500,
                   Summary(IF o.status = 429 \/ o.quota THEN "AI Rate Limit Reached"
                                                        ELSE UnavailableMsg,
                           PlaceholderNotes, Acquired(len)))
    ELSE Json(200, Summary("Summary generation failed.", PlaceholderNotes, Acquired(len)))

Reply(r) ==
    /\ response' = r
    /\ pc' = "done"

Invoked(name, out) == calls' = Append(calls, [name |-> name, out |-> out])

\* The promise of downloadAudioStream / downloadAudioYtdlCore: the stream
\* ("none", "flowing", "ended", "errored", "destroyed"), the chunks pushed,
\* whether the timer of setTimeout is pending, the promise with the value or
\* the reason it settled with, and, as history, the events in their order.
NoDownload ==
    [stream |-> "none", chunks |-> <<>>, timer |-> FALSE, promise |-> "pending",
     value |-> <<>>, reason |-> "", events |-> <<>>]

\* the most chunks of a download
MaxChunks == 3

\* resolve(v): a promise settles once, a later call does nothing
Resolve(d, v) ==
    IF d.promise = "pending" THEN [d EXCEPT !.promise = "resolved", !.value = v] ELSE d

\* a reject that settles the promise again
Reject_Overwrites(d, r) == [d EXCEPT !.promise = "rejected", !.value = <<>>, !.reason = r]

\* reject(e)
Reject(d, r) ==
    IF d.promise = "pending" THEN [d EXCEPT !.promise = "rejected", !.reason = r] ELSE d

\* the longest list of caption tracks
MaxTracks == 3

\* the first track of every list
SelectTrack_First(tracks) == IF tracks = <<>> THEN 0 ELSE 1

\* if (tracks && tracks.length > 0)
\*     track = tracks.find(t => t.languageCode === 'en') || tracks[0]
\* as the position of the track in the list, 0 when nothing is selected
SelectTrack(tracks) ==
    IF tracks = <<>> THEN 0
    ELSE IF \E i \in DOMAIN tracks : tracks[i] = "en"
         THEN CHOOSE i \in DOMAIN tracks :
                 tracks[i] = "en" /\ \A j \in DOMAIN tracks : tracks[j] = "en" => i <= j
    ELSE 1

(* the accounts: registration, sign-in, approval, the dashboard *)

\* no row with that email
NoUser == [role |-> "none", isApproved |-> FALSE, password |-> <<>>]

\* bcrypt.hash(password, 10); bcrypt.compare(p, h) is h = Hash(p)
Hash(p) == <<"bcrypt", p>>

\* The table as deployed: the administrator is entered by hand (no operation
\* creates a row with role "admin"); "a" and "b" have no row yet.
SeededUsers ==
    [e \in {"root", "a", "b"} |->
        IF e = "root"
        THEN [role |-> "admin", isApproved |-> TRUE, password |-> Hash("r")]
        ELSE NoUser]

\* no request carries a session
NoToken == [user |-> "", role |-> "none", isApproved |-> FALSE]

\* the sessions a request can carry: the tokens the jwt callback makes
Tokens ==
    {NoToken} \cup [user : {"root", "a", "b"}, role : {"admin", "user"}, isApproved : {TRUE}]

\* POST /api/register.  seen is what the select of the handler returned; the
\* insert comes after two awaits, so a row that another registration has
\* inserted in between is not seen, and the unique index on email makes the
\* insert throw (500).
Register(email, password, seen) ==
    /\ seen => (email # "" /\ password # "" /\ users[email] # NoUser)
    /\ LET status == IF email = "" \/ password = "" THEN 400
                     ELSE IF seen THEN 400
                     ELSE IF users[email] # NoUser THEN 500
                     ELSE 201
       IN  /\ users' = IF status # 201 THEN users
                        ELSE [users EXCEPT ![email] =
                                [role |-> "user", isApproved |-> FALSE,
                                 password |-> Hash(password)]]
           /\ reply' = [op |-> "register", user |-> email, status |-> status]
    /\ UNCHANGED <<tokens, approved>>
    /\ UNCHANGED <<cvars, svars>>

\* a sign-in that does not look at isApproved
authorize_Unapproved(email, password) ==
    /\ IF /\ email # "" /\ password # ""
          /\ users[email] # NoUser
          /\ users[email].password = Hash(password)
       THEN /\ tokens' = tokens \cup {[user |-> email, role |-> users[email].role,
                                       isApproved |-> users[email].isApproved]}
            /\ reply' = [op |-> "signin", user |-> email, status |-> 200]
       ELSE reply' = [op |-> "signin", user |-> email, status |-> 401] /\ UNCHANGED tokens
    /\ UNCHANGED <<users, approved>>
    /\ UNCHANGED <<cvars, svars>>

\* authorize(credentials) and the jwt callback: the token keeps the role and
\* isApproved of the row as they are at sign-in
authorize(email, password) ==
    /\ IF /\ email # "" /\ password # ""
          /\ users[email] # NoUser
          /\ users[email].password = Hash(password)
          /\ users[email].isApproved
       THEN /\ tokens' = tokens \cup {[user |-> email, role |-> users[email].role,
                                       isApproved |-> users[email].isApproved]}
            /\ reply' = [op |-> "signin", user |-> email, status |-> 200]
       ELSE reply' = [op |-> "signin", user |-> email, status |-> 401] /\ UNCHANGED tokens
    /\ UNCHANGED <<users, approved>>
    /\ UNCHANGED <<cvars, svars>>

\* PATCH /api/admin/users with the session of token t (NoToken: none) and
\* the body { userId, isApproved }; an update where no row matches changes
\* nothing
PATCH(t, userId, isApproved) ==
    /\ t \in tokens \cup {NoToken}
    /\ LET status == IF t = NoToken \/ t.role # "admin" THEN 401
                     ELSE IF userId = "" THEN 400
                     ELSE 200
           updates == status = 200 /\ users[userId] # NoUser
       IN  /\ users' = IF updates THEN [users EXCEPT ![userId].isApproved = isApproved]
                        ELSE users
           /\ approved' = IF updates /\ isApproved THEN approved \cup {userId}
                           ELSE approved
           /\ reply' = [op |-> "patch", user |-> userId, status |-> status]
    /\ UNCHANGED tokens
    /\ UNCHANGED <<cvars, svars>>

\* DashboardPage: if (!session) redirect("/auth/signin"), else the page with
\* the summarizer is rendered
DashboardPage(t) ==
    /\ t \in tokens \cup {NoToken}
    /\ reply' = [op |-> "dashboard", user |-> t.user,
                 status |-> IF t = NoToken THEN 307 ELSE 200]
    /\ UNCHANGED <<users, tokens, approved>>
    /\ UNCHANGED <<cvars, svars>>

\* Who sends the request: nobody signed in; a user signed in and approved; a
\* user who signed in while approved and whose isApproved an administrator
\* has set to false since (the token keeps what authorize returned).
NoSession == "none"
ApprovedSession == "approved"

\* The accounts behind the sender of a summarize request: nobody signed in;
\* or "a" registered, was approved and signed in, and is still approved or
\* has been revoked since.
AccountsOf(s) ==
    /\ users = IF s = NoSession THEN SeededUsers
               ELSE [SeededUsers EXCEPT !["a"] =
                        [role |-> "user", isApproved |-> (s = ApprovedSession),
                         password |-> Hash("p")]]
    /\ tokens = IF s = NoSession THEN {}
                ELSE {[user |-> "a", role |-> "user", isApproved |-> TRUE]}
    /\ approved = IF s = NoSession THEN {} ELSE {"a"}
    /\ reply = [op |-> "none", user |-> "", status |-> 0]

ServerInit ==
    /\ variant \in Variants
    /\ session \in {NoSession, ApprovedSession, "revoked"}
    /\ AccountsOf(session)
    /\ child = "none"
    /\ captionTracks \in {<<>>, <<"fr", "en">>}
    /\ track = Null
    /\ dl = NoDownload
    /\ reqUrl \in {"", "https://example.com/video", ShortsUrl, WatchUrl}
    /\ apiKey \in BOOLEAN
    /\ ytdlpExists \in BOOLEAN
    /\ pc = "start"
    /\ videoId = ""
    /\ transcriptText = 0
    /\ audioBuffer = Null
    /\ calls = <<>>
    /\ genCalls = <<>>
    /\ response = NoResponse

\* ParseRequest without the check of GEMINI_API_KEY
ParseRequest_NoKeyCheck ==
    /\ pc = "start"
    /\ IF reqUrl = "" THEN Reply(Json(400, ErrorBody(UrlRequiredMsg))) /\ UNCHANGED videoId
       ELSE IF VideoIdOf(reqUrl) = "" /\ variant \in RejectsNoId
            THEN Reply(Json(400, ErrorBody(InvalidUrlMsg))) /\ UNCHANGED videoId
       ELSE /\ videoId' = VideoIdOf(reqUrl)
            /\ pc' = "t1"
            /\ UNCHANGED response
    /\ UNCHANGED cvars
    /\ UNCHANGED avars
    /\ UNCHANGED <<variant, session, dl, child, captionTracks, track, reqUrl, apiKey,
                   ytdlpExists, transcriptText, audioBuffer, calls, genCalls>>

\* the body is read, the url and the key are checked, the identifier extracted
ParseRequest ==
    /\ pc = "start"
    /\ IF reqUrl = "" THEN Reply(Json(400, ErrorBody(UrlRequiredMsg))) /\ UNCHANGED videoId
       ELSE IF ~apiKey THEN Reply(Json(500, ErrorBody(KeyMissingMsg))) /\ UNCHANGED videoId
       ELSE IF VideoIdOf(reqUrl) = "" /\ variant \in RejectsNoId
            THEN Reply(Json(400, ErrorBody(InvalidUrlMsg))) /\ UNCHANGED videoId
       ELSE /\ videoId' = VideoIdOf(reqUrl)
            /\ pc' = "t1"
            /\ UNCHANGED response
    /\ UNCHANGED cvars
    /\ UNCHANGED avars
    /\ UNCHANGED <<variant, session, dl, child, captionTracks, track, reqUrl, apiKey,
                   ytdlpExists, transcriptText, audioBuffer, calls, genCalls>>

AfterYoutubeTranscript == IF variant \in HasYtDlpSubtitles THEN "t2" ELSE "mode"

\* YoutubeTranscript.fetchTranscript(videoId)
TryYoutubeTranscript ==
    /\ pc = "t1"
    /\ videoId # ""
    /\ \E out \in TranscriptOutcomes :
         /\ Invoked("YoutubeTranscript", out)
         /\ transcriptText' = out.len
         /\ pc' = Awaited(out, AfterYoutubeTranscript)
    /\ UNCHANGED cvars
    /\ UNCHANGED avars
    /\ UNCHANGED <<variant, session, dl, child, captionTracks, track, reqUrl, apiKey,
                   ytdlpExists, videoId, audioBuffer, genCalls, response>>

\* if (videoId) is false
SkipYoutubeTranscript ==
    /\ pc = "t1"
    /\ videoId = ""
    /\ pc' = AfterYoutubeTranscript
    /\ UNCHANGED cvars
    /\ UNCHANGED avars
    /\ UNCHANGED <<variant, session, dl, child, captionTracks, track, reqUrl, apiKey,
                   ytdlpExists, videoId, transcriptText, audioBuffer, calls, genCalls,
                   response>>

\* resolve and reject are called in the listener of the close event of the
\* child process: when the await returns the process has closed
ChildWhenSettled(out) == IF out = Hung THEN "running" ELSE "closed"

AfterYtDlpSubtitles == IF variant = Part001 THEN "t3" ELSE "mode"

YtDlpSubtitlesGuard ==
    /\ transcriptText = 0
    /\ variant = Part001 => ytdlpExists

\* fetchSubtitleWithYtDlp(url): it resolves with the text, or with "".  When
\* the executable is missing the child process emits an error event that has
\* no listener: the exception ends the process, or, where the host catches
\* it, the close event still resolves "".
TryYtDlpSubtitles ==
    /\ pc = "t2"
    /\ YtDlpSubtitlesGuard
    /\ \/ /\ ytdlpExists
          /\ \E out \in TranscriptOutcomes :
               /\ out.kind # "threw"
               /\ Invoked("ytdlpSubtitles", out)
               /\ transcriptText' = out.len
               /\ child' = ChildWhenSettled(out)
               /\ pc' = Awaited(out, AfterYtDlpSubtitles)
       \/ /\ ~ytdlpExists
          /\ Invoked("ytdlpSubtitles", [kind |-> "empty", len |-> 0])
          /\ transcriptText' = 0
          /\ child' = "none"
          /\ pc' \in {AfterYtDlpSubtitles, "crashed"}
    /\ UNCHANGED cvars
    /\ UNCHANGED avars
    /\ UNCHANGED <<variant, session, dl, captionTracks, track, reqUrl, apiKey, ytdlpExists,
                   videoId, audioBuffer, genCalls, response>>

SkipYtDlpSubtitles ==
    /\ pc = "t2"
    /\ ~YtDlpSubtitlesGuard
    /\ pc' = AfterYtDlpSubtitles
    /\ UNCHANGED cvars
    /\ UNCHANGED avars
    /\ UNCHANGED <<variant, session, dl, child, captionTracks, track, reqUrl, apiKey,
                   ytdlpExists, videoId, transcriptText, audioBuffer, calls, genCalls,
                   response>>

\* the third strategy without its guard
TryYtdlMetadata_Always ==
    /\ pc = "t3"
    /\ \E got \in {"info", "threw", "hung"} : \E fetched \in TranscriptOutcomes :
         LET sel == IF got = "info" THEN SelectTrack(captionTracks) ELSE Null
             out == IF got = "threw" THEN [kind |-> "threw", len |-> 0]
                    ELSE IF got = "hung" THEN Hung
                    ELSE IF sel = 0 THEN [kind |-> "empty", len |-> 0]
                    ELSE fetched
         IN  /\ Invoked("ytdlMetadata", out)
             /\ track' = sel
             /\ transcriptText' = out.len
             /\ pc' = Awaited(out, "mode")
    /\ UNCHANGED cvars
    /\ UNCHANGED avars
    /\ UNCHANGED <<variant, session, dl, child, captionTracks, reqUrl, apiKey, ytdlpExists,
                   videoId, audioBuffer, genCalls, response>>

\* ytdl.getInfo(url), the choice of a caption track and the fetch of its
\* baseUrl: getInfo throws, never settles, or returns the track list; with
\* no track nothing is fetched and transcriptText stays ""; the fetch throws,
\* never settles, or returns the text left of the xml
TryYtdlMetadata ==
    /\ pc = "t3"
    /\ transcriptText = 0
    /\ \E got \in {"info", "threw", "hung"} : \E fetched \in TranscriptOutcomes :
         LET sel == IF got = "info" THEN SelectTrack(captionTracks) ELSE Null
             out == IF got = "threw" THEN [kind |-> "threw", len |-> 0]
                    ELSE IF got = "hung" THEN Hung
                    ELSE IF sel = 0 THEN [kind |-> "empty", len |-> 0]
                    ELSE fetched
         IN  /\ Invoked("ytdlMetadata", out)
             /\ track' = sel
             /\ transcriptText' = out.len
             /\ pc' = Awaited(out, "mode")
    /\ UNCHANGED cvars
    /\ UNCHANGED avars
    /\ UNCHANGED <<variant, session, dl, child, captionTracks, reqUrl, apiKey, ytdlpExists,
                   videoId, audioBuffer, genCalls, response>>

SkipYtdlMetadata ==
    /\ pc = "t3"
    /\ transcriptText # 0
    /\ pc' = "mode"
    /\ UNCHANGED cvars
    /\ UNCHANGED avars
    /\ UNCHANGED <<variant, session, dl, child, captionTracks, track, reqUrl, apiKey,
                   ytdlpExists, videoId, transcriptText, audioBuffer, calls, genCalls,
                   response>>

\* if (transcriptText && transcriptText.length > 100) ... else ...
ChooseMode ==
    /\ pc = "mode"
    /\ LET \* the first stage of the audio branch
           AudioStart(v) ==
               IF v = RouteTs THEN "a0"
               ELSE IF v \in {Part001, Part002} THEN "a1"
               ELSE "a2"
       IN  pc' = IF Usable(transcriptText) THEN "text" ELSE AudioStart(variant)
    /\ UNCHANGED cvars
    /\ UNCHANGED avars
    /\ UNCHANGED <<variant, session, dl, child, captionTracks, track, reqUrl, apiKey,
                   ytdlpExists, videoId, transcriptText, audioBuffer, calls, genCalls,
                   response>>

\* the text branch calling generateContent again after a call that failed
GenerateTextFrom_Retries(raws) ==
    /\ pc = "text"
    /\ \E o \in GenOutcomes(raws) :
         /\ genCalls' = Append(genCalls,
                [mode |-> "text",
                 size |-> IF transcriptText < TextBudget(variant) THEN transcriptText
                          ELSE TextBudget(variant),
                 out |-> o])
         /\ IF o = GenHung THEN pc' = "hung" /\ UNCHANGED response
            ELSE IF ~o.ok /\ genCalls = <<>> THEN pc' = "text" /\ UNCHANGED response
            ELSE Reply(TextReply(variant, o, transcriptText))
    /\ UNCHANGED cvars
    /\ UNCHANGED avars
    /\ UNCHANGED <<variant, session, dl, child, captionTracks, track, reqUrl, apiKey,
                   ytdlpExists, videoId, transcriptText, audioBuffer, calls>>

\* model.generateContent(prompt) with the transcript cut to the budget; the
\* model answers with one of raws
GenerateTextFrom(raws) ==
    /\ pc = "text"
    /\ \E o \in GenOutcomes(raws) :
         /\ genCalls' = Append(genCalls,
                [mode |-> "text",
                 size |-> IF transcriptText < TextBudget(variant) THEN transcriptText
                          ELSE TextBudget(variant),
                 out |-> o])
         /\ IF o = GenHung THEN pc' = "hung" /\ UNCHANGED response
            ELSE Reply(TextReply(variant, o, transcriptText))
    /\ UNCHANGED cvars
    /\ UNCHANGED avars
    /\ UNCHANGED <<variant, session, dl, child, captionTracks, track, reqUrl, apiKey,
                   ytdlpExists, videoId, transcriptText, audioBuffer, calls>>

\* ytdl.validateURL(url), ytdl.getInfo(url) and ytdl.chooseFormat(...)
PrepareAudio ==
    /\ pc = "a0"
    /\ IF reqUrl \notin {ShortsUrl, WatchUrl}   \* ytdl.validateURL(url)
       THEN Reply(Json(500, ErrorBody(AudioFailedMsg))) /\ UNCHANGED calls
       ELSE \E kind \in {"info", "threw", "hung"} :
              /\ Invoked("ytdlInfo", [kind |-> kind, len |-> 0])
              /\ IF kind = "info" THEN pc' = "a2" /\ UNCHANGED response
                 ELSE IF kind = "hung" THEN pc' = "hung" /\ UNCHANGED response
                 ELSE Reply(Json(500, ErrorBody(AudioFailedMsg)))
    /\ UNCHANGED cvars
    /\ UNCHANGED avars
    /\ UNCHANGED <<variant, session, dl, child, captionTracks, track, reqUrl, apiKey,
                   ytdlpExists, videoId, transcriptText, audioBuffer, genCalls>>

YtDlpAudioGuard == variant = Part001 => ytdlpExists

\* downloadAudioYtDlp(url), downloadAudioBuffer(url): the bytes of the audio,
\* or a rejection; --max-filesize is honoured by the tool only where it
\* knows the size beforehand.  The promise settles on the close event of the
\* child process (or on its error event in part_002) and on nothing else.
TryYtDlpAudio ==
    /\ pc = "a1"
    /\ YtDlpAudioGuard
    /\ \E out \in AudioOutcomes(IF ytdlpExists THEN AudioSizes ELSE {})
                    \cup (IF ytdlpExists THEN {Hung} ELSE {}) :
         /\ Invoked("ytdlpAudio", out)
         /\ audioBuffer' = BufferOf(out)
         /\ child' = IF ytdlpExists THEN ChildWhenSettled(out) ELSE "none"
         /\ IF out = Hung THEN pc' = "hung" /\ UNCHANGED response
            ELSE IF variant = Part001 THEN pc' = "a2" /\ UNCHANGED response
            ELSE IF out = Rejected THEN Reply(Json(500, ErrorBody(AudioFailedMsg)))
            ELSE pc' = "size" /\ UNCHANGED response
    /\ UNCHANGED cvars
    /\ UNCHANGED avars
    /\ UNCHANGED <<variant, session, dl, captionTracks, track, reqUrl, apiKey, ytdlpExists,
                   videoId, transcriptText, genCalls>>

SkipYtDlpAudio ==
    /\ pc = "a1"
    /\ ~YtDlpAudioGuard
    /\ pc' = "a2"
    /\ UNCHANGED cvars
    /\ UNCHANGED avars
    /\ UNCHANGED <<variant, session, dl, child, captionTracks, track, reqUrl, apiKey,
                   ytdlpExists, videoId, transcriptText, audioBuffer, calls, genCalls,
                   response>>

\* the library-based acquirer without its guard
TryYtdlAudio_Always ==
    /\ pc = "a2"
    /\ \E settled \in AudioOutcomes({0} \cup AudioSizes) \cup {Hung} :
        LET out == WithTimeout(settled)
        IN
         /\ Invoked("ytdlAudio", out)
         /\ audioBuffer' = BufferOf(out)
         /\ IF out \in {Rejected, TimedOut}
            THEN Reply(Json(500, ErrorBody(IF variant = Part001 THEN ExhaustedMsg
                                                              ELSE AudioFailedMsg)))
            ELSE /\ pc' = IF variant \in ChecksSize THEN "size" ELSE "audio"
                 /\ UNCHANGED response
    /\ UNCHANGED cvars
    /\ UNCHANGED avars
    /\ UNCHANGED <<variant, session, dl, child, captionTracks, track, reqUrl, apiKey,
                   ytdlpExists, videoId, transcriptText, genCalls>>

\* downloadAudioStream(url), downloadAudioYtdlCore(url): the bytes read until
\* the stream ended, or a rejection (an error of the stream, the timeout)
TryYtdlAudio ==
    /\ pc = "a2"
    /\ audioBuffer = Null
    /\ \E settled \in AudioOutcomes({0} \cup AudioSizes) \cup {Hung} :
        LET out == WithTimeout(settled)
        IN
         /\ Invoked("ytdlAudio", out)
         /\ audioBuffer' = BufferOf(out)
         /\ IF out \in {Rejected, TimedOut}
            THEN Reply(Json(500, ErrorBody(IF variant = Part001 THEN ExhaustedMsg
                                                              ELSE AudioFailedMsg)))
            ELSE /\ pc' = IF variant \in ChecksSize THEN "size" ELSE "audio"
                 /\ UNCHANGED response
    /\ UNCHANGED cvars
    /\ UNCHANGED avars
    /\ UNCHANGED <<variant, session, dl, child, captionTracks, track, reqUrl, apiKey,
                   ytdlpExists, videoId, transcriptText, genCalls>>

\* if (!audioBuffer) is false
SkipYtdlAudio ==
    /\ pc = "a2"
    /\ audioBuffer # Null
    /\ pc' = "audio"
    /\ UNCHANGED cvars
    /\ UNCHANGED avars
    /\ UNCHANGED <<variant, session, dl, child, captionTracks, track, reqUrl, apiKey,
                   ytdlpExists, videoId, transcriptText, audioBuffer, calls, genCalls,
                   response>>

\* if (audioBuffer.length > 19 * 1024 * 1024)
CheckSize ==
    /\ pc = "size"
    /\ IF audioBuffer > MaxAudioBytes
       THEN Reply(Json(400, ErrorBody(TooLargeMsg)))
       ELSE pc' = "audio" /\ UNCHANGED response
    /\ UNCHANGED cvars
    /\ UNCHANGED avars
    /\ UNCHANGED <<variant, session, dl, child, captionTracks, track, reqUrl, apiKey,
                   ytdlpExists, videoId, transcriptText, audioBuffer, calls, genCalls>>

\* model.generateContent([prompt, {inlineData: ...}]) with the whole buffer
GenerateAudioFrom(raws) ==
    /\ pc = "audio"
    /\ \E o \in GenOutcomes(raws) :
       LET \* the response of the audio branch to what generateContent did
           AudioReply(v, out) ==
               IF out.ok THEN Json(200, extractJson(v, out.raw))
               ELSE IF v = Part001 THEN Json(500, ErrorBody(ServerErrorMsg))
               ELSE Json(500, ErrorBody(AudioFailedMsg))
       IN
         /\ genCalls' = Append(genCalls, [mode |-> "audio", size |-> audioBuffer, out |-> o])
         /\ IF o = GenHung THEN pc' = "hung" /\ UNCHANGED response
            ELSE Reply(AudioReply(variant, o))
    /\ UNCHANGED cvars
    /\ UNCHANGED avars
    /\ UNCHANGED <<variant, session, dl, child, captionTracks, track, reqUrl, apiKey,
                   ytdlpExists, videoId, transcriptText, audioBuffer, calls>>

\* export const maxDuration = 60: the platform ends a request that has run
\* for that many seconds and answers 504 in its place; nothing in the handler
\* runs at that point, so a child process that is running is left running
MaxDuration == 60

PlatformTimeout ==
    /\ pc = "hung"
    /\ variant \in {RouteTs, Part001, Part003}
    /\ response' = Json(504, NullValue)
    /\ pc' = "ended"
    /\ UNCHANGED cvars
    /\ UNCHANGED avars
    /\ UNCHANGED <<variant, session, dl, child, captionTracks, track, reqUrl, apiKey,
                   ytdlpExists, videoId, transcriptText, audioBuffer, calls, genCalls>>

GenerateText == GenerateTextFrom(RawSamples)

GenerateAudio == GenerateAudioFrom(RawSamples)

\* the same calls, the model answering with any text of MaxRawLen tokens
GenerateTextAny == GenerateTextFrom(RawTexts)

GenerateAudioAny == GenerateAudioFrom(RawTexts)

ServerNext ==
    \/ ParseRequest
    \/ TryYoutubeTranscript
    \/ SkipYoutubeTranscript
    \/ TryYtDlpSubtitles
    \/ SkipYtDlpSubtitles
    \/ TryYtdlMetadata
    \/ SkipYtdlMetadata
    \/ ChooseMode
    \/ GenerateText
    \/ PrepareAudio
    \/ TryYtDlpAudio
    \/ SkipYtDlpAudio
    \/ TryYtdlAudio
    \/ SkipYtdlAudio
    \/ CheckSize
    \/ GenerateAudio
    \/ PlatformTimeout

\* no request at the handler
ServerIdle ==
    /\ variant = RouteTs
    /\ session = NoSession
    /\ AccountsOf(session)
    /\ child = "none"
    /\ captionTracks = <<>>
    /\ track = Null
    /\ dl = NoDownload
    /\ reqUrl = ""
    /\ apiKey = TRUE
    /\ ytdlpExists = FALSE
    /\ pc = "idle"
    /\ videoId = ""
    /\ transcriptText = 0
    /\ audioBuffer = Null
    /\ calls = <<>>
    /\ genCalls = <<>>
    /\ response = NoResponse

----------------------------------------------------------------------------
(* The specifications *)

\* the controller, with at most MaxRateLimited responses of status 429
ClientSpecInit == ClientInit /\ ServerIdle

ClientSpec == ClientSpecInit /\ [][ClientNext]_vars

\* the controller, with at most MaxRateLimitedDeep responses of status 429
ClientSpecDeep == ClientSpecInit /\ [][ClientNextDeep]_vars

\* one request at the handler
ServerSpecInit == ClientInit /\ ServerInit

ServerSpec == ServerSpecInit /\ [][ServerNext]_vars

\* The handler about to call generateContent: in text mode after
\* YoutubeTranscript returned 101 characters, in audio mode after the
\* transcript strategies of the version found nothing and its audio acquirer
\* returned 1024 bytes.
Called(name, out) == [name |-> name, out |-> out]

Threw == [kind |-> "threw", len |-> 0]

BeforeGenerate ==
    LET \* the acquirers a version has called when it reaches the audio call
        AudioCallsBefore(v) ==
            IF v = RouteTs
            THEN <<Called("YoutubeTranscript", Threw),
                   Called("ytdlInfo", [kind |-> "info", len |-> 0]),
                   Called("ytdlAudio", Bytes(1024))>>
            ELSE IF v = Part001
            THEN <<Called("YoutubeTranscript", Threw), Called("ytdlMetadata", Threw),
                   Called("ytdlAudio", Bytes(1024))>>
            ELSE IF v = Part002
            THEN <<Called("YoutubeTranscript", Threw),
                   Called("ytdlpSubtitles", [kind |-> "empty", len |-> 0]),
                   Called("ytdlpAudio", Bytes(1024))>>
            ELSE <<Called("YoutubeTranscript", Threw), Called("ytdlAudio", Bytes(1024))>>
    IN
    /\ variant \in Variants
    /\ session = ApprovedSession
    /\ AccountsOf(session)
    /\ child = "none"
    /\ captionTracks = <<>>
    /\ track = Null
    /\ dl = NoDownload
    /\ reqUrl = WatchUrl
    /\ apiKey = TRUE
    /\ videoId = VideoIdOf(WatchUrl)
    /\ genCalls = <<>>
    /\ response = NoResponse
    /\ \/ /\ pc = "text"
          /\ ytdlpExists = FALSE
          /\ transcriptText = 101
          /\ audioBuffer = Null
          /\ calls = <<Called("YoutubeTranscript", [kind |-> "text", len |-> 101])>>
       \/ /\ pc = "audio"
          /\ ytdlpExists = (variant = Part002)
          /\ transcriptText = 0
          /\ audioBuffer = 1024
          /\ calls = AudioCallsBefore(variant)

NormalizerInit == ClientInit /\ BeforeGenerate

NormalizerNext == GenerateTextAny \/ GenerateAudioAny

\* generateContent and extractJson, for every text of at most MaxRawLen tokens
NormalizerSpec == NormalizerInit /\ [][NormalizerNext]_vars

\* part_001 at its third transcript strategy, for every list of caption
\* tracks: YoutubeTranscript threw or returned a short text, the tool is
\* not installed
BeforeMetadata ==
    /\ variant = Part001
    /\ session = ApprovedSession
    /\ AccountsOf(session)
    /\ child = "none"
    /\ captionTracks \in UNION {[1 .. n -> {"en", "en-US", "fr"}] : n \in 0 .. MaxTracks}
    /\ track = Null
    /\ dl = NoDownload
    /\ reqUrl = WatchUrl
    /\ apiKey = TRUE
    /\ ytdlpExists = FALSE
    /\ pc = "t3"
    /\ videoId = VideoIdOf(WatchUrl)
    /\ \E out \in {Threw, [kind |-> "text", len |-> 50]} :
          /\ transcriptText = out.len
          /\ calls = <<Called("YoutubeTranscript", out)>>
    /\ audioBuffer = Null
    /\ genCalls = <<>>
    /\ response = NoResponse

TrackSpecInit == ClientInit /\ BeforeMetadata

TrackNext == TryYtdlMetadata \/ SkipYtdlMetadata

\* the third transcript strategy, applied to every list of up to MaxTracks tracks
TrackSpec == TrackSpecInit /\ [][TrackNext]_vars

\* A version with the library-based download, inside the call of it
BeforeDownload ==
    /\ variant \in {RouteTs, Part001, Part003}
    /\ session = ApprovedSession
    /\ AccountsOf(session)
    /\ child = "none"
    /\ captionTracks = <<>>
    /\ track = Null
    /\ dl = [NoDownload EXCEPT !.stream = "flowing", !.timer = TRUE]
    /\ reqUrl = WatchUrl
    /\ apiKey = TRUE
    /\ ytdlpExists = FALSE
    /\ pc = "a2"
    /\ videoId = VideoIdOf(WatchUrl)
    /\ transcriptText = 0
    /\ audioBuffer = Null
    /\ calls = <<Called("YoutubeTranscript", Threw)>>
    /\ genCalls = <<>>
    /\ response = NoResponse

\* an event of the download: only dl changes
DownloadEvent(d) ==
    /\ pc = "a2"
    /\ dl' = d
    /\ UNCHANGED cvars
    /\ UNCHANGED avars
    /\ UNCHANGED <<variant, session, child, captionTracks, track, reqUrl, apiKey, ytdlpExists,
                   pc, videoId, transcriptText, audioBuffer, calls, genCalls, response>>

\* stream.on('data', chunk => chunks.push(chunk))
StreamData(c) ==
    /\ dl.stream = "flowing"
    /\ Len(dl.chunks) < MaxChunks
    /\ DownloadEvent([dl EXCEPT !.chunks = Append(@, c), !.events = Append(@, "data")])

\* stream.on('end', () => resolve(Buffer.concat(chunks)))
StreamEnd ==
    /\ dl.stream = "flowing"
    /\ DownloadEvent(Resolve([dl EXCEPT !.stream = "ended", !.events = Append(@, "end")],
                             dl.chunks))

\* stream.on('error', err => reject(err))
StreamError ==
    /\ dl.stream = "flowing"
    /\ DownloadEvent(Reject([dl EXCEPT !.stream = "errored", !.events = Append(@, "error")],
                            "error"))

\* setTimeout(() => { stream.destroy(); reject(new Error(...)); }, ...): the
\* timer is never cleared, it fires whatever the stream did before
DownloadTimer ==
    /\ dl.timer
    /\ DownloadEvent(Reject([dl EXCEPT !.timer = FALSE, !.stream = "destroyed",
                                       !.events = Append(@, "timeout")],
                            "timeout"))

DownloadSpecInit == ClientInit /\ BeforeDownload

DownloadNext ==
    \/ \E c \in {"a", "b", "c"} : StreamData(c)
    \/ StreamEnd
    \/ StreamError
    \/ DownloadTimer

\* the library-based download, event by event
DownloadSpec == DownloadSpecInit /\ [][DownloadNext]_vars

AuthNext ==
    \/ \E e \in {"", "a", "b"} : \E p \in {"", "p", "q"} : \E seen \in BOOLEAN :
          Register(e, p, seen)
    \/ \E e \in {"", "root", "a", "b"} : \E p \in {"", "p", "q", "r"} : authorize(e, p)
    \/ \E t \in Tokens : \E u \in {"", "root", "a", "b"} : \E b \in BOOLEAN : PATCH(t, u, b)
    \/ \E t \in Tokens : DashboardPage(t)

\* the account operations, from the table as deployed
AuthSpec == ClientSpecInit /\ [][AuthNext]_vars

----------------------------------------------------------------------------
(* The claims about the controller *)

InFlight == BagToSet(inflight)

AutoInFlight == {r \in InFlight : r.cause = "auto"}

\* a step that sends an automatic re-submission
AutoFires == autoSent' = autoSent + 1

\* a step in which Cancel Retry is clicked at a countdown above 0
CancelsAbove0 == cd.cancelled # "positive" /\ cd'.cancelled = "positive"

\* a step that handles a 429 response
Handles429 == rateLimited' = rateLimited + 1

\* C1: after Cancel Retry at a countdown n > 0 the timer is cleared, the
\* countdown is null and the status is "Retry cancelled."; that cooldown sends
\* no automatic re-submission; and no response sets the status to that value.
C1_CancelStopsRetry ==
    /\ [](cd.cancelled = "positive" =>
            /\ retryCountdown = Null
            /\ timer = Null
            /\ ~effectPending)
    /\ [](\A r \in AutoInFlight : r.afterCancel # "positive")
    /\ [][CancelsAbove0 => (error' = RetryCancelledMsg /\ ~AutoFires)]_cvars
    /\ [][cd.cancelled = "positive" /\ cd'.cancelled = "positive" => ~AutoFires]_cvars
    /\ [](\A req \in InFlight : \A resp \in Responses :
            handleSummarizeResponse([Cur EXCEPT !.error = ""], req, resp).error
                # RetryCancelledMsg)

C1_Witness == cd.cancelled = "positive" /\ error = RetryCancelledMsg

\* C2 as claimed: a cooldown neither cancelled nor manually retried sends,
\* when the countdown reaches zero, exactly one automatic re-submission, of
\* the url of the request that was rate limited, and the countdown is null
\* afterwards.
C2_Claimed ==
    /\ [](retryCountdown = 0 => effectPending)
    /\ [][retryCountdown = 0 => AutoFires]_cvars
    /\ [][AutoFires => retryCountdown' = Null]_cvars
    /\ [](\A r \in AutoInFlight :
            (r.afterCancel = "no" /\ ~r.afterManual) => (r.nth = 1 /\ r.url = r.cdUrl))

\* C3: the automatic fire at zero and Retry Now never both submit for one
\* cooldown, and two summarize requests are never in flight at once.
C3_NoDoubleSubmit ==
    /\ BagCardinality(inflight) <= 1
    /\ \A r \in AutoInFlight : ~r.afterManual

\* C4: a 429 response sets the countdown to 30 and, when its body carries a
\* transcript, makes that body the displayed result; the countdown at zero
\* sends the automatic retry.
C4_Claimed ==
    /\ [][Handles429 =>
            /\ retryCountdown' = CooldownSeconds
            /\ cd'.body.transcript => result' = cd'.body]_cvars
    /\ [][retryCountdown = 0 => AutoFires]_cvars

----------------------------------------------------------------------------
(* The claims about the summarize handler *)

TranscriptStrategies == <<"YoutubeTranscript", "ytdlpSubtitles", "ytdlMetadata">>

AudioAcquirers == {"ytdlInfo", "ytdlpAudio", "ytdlAudio"}

\* the place of a transcript strategy in the order, 0 for an audio acquirer
Rank(name) ==
    IF \E k \in DOMAIN TranscriptStrategies : TranscriptStrategies[k] = name
    THEN CHOOSE k \in DOMAIN TranscriptStrategies : TranscriptStrategies[k] = name
    ELSE 0

TranscriptCalls == {i \in DOMAIN calls : Rank(calls[i].name) > 0}

AudioCalls == {i \in DOMAIN calls : calls[i].name \in AudioAcquirers}

AudioStages == {"a0", "a1", "a2", "size", "audio"}

\* C5 as claimed: when generateContent is rate limited in text mode, that is
\* after a transcript was acquired, the response has status 429 and carries
\* the acquired transcript, and generateContent was called once.
C5_Claimed ==
    (pc = "done" /\ \E i \in DOMAIN genCalls :
                      genCalls[i].mode = "text" /\ RateLimited(genCalls[i].out))
    => /\ response.status = 429
       /\ response.body.transcript = Acquired(transcriptText)
       /\ Len(genCalls) = 1

\* C6 as claimed: a request with a key configured whose url is not empty but
\* yields no video identifier is answered 400 with an error right after the
\* extraction, and no acquirer and no generateContent is invoked.
C6_Claimed ==
    (reqUrl # "" /\ apiKey /\ VideoIdOf(reqUrl) = "" /\ pc # "start")
    => /\ pc = "done"
       /\ response.status = 400
       /\ response.body.error # ""
       /\ calls = <<>>
       /\ genCalls = <<>>

\* C7: generateContent is called in text mode only with a transcript of more
\* than 100 characters; with a transcript of 100 characters or fewer, empty
\* or not, the handler leaves the transcript stage for the audio branch.
C7_ShortTranscriptGoesToAudio ==
    /\ [](\A i \in DOMAIN genCalls : genCalls[i].mode = "text" => transcriptText > 100)
    /\ [](transcriptText <= 100 => pc # "text")
    /\ [][pc = "mode" /\ transcriptText <= 100 => pc' \in AudioStages]_vars

C7_Witness ==
    /\ transcriptText = 50
    /\ AudioCalls # {}
    /\ \E i \in DOMAIN genCalls : genCalls[i].mode = "audio"

\* C8: once a transcript of more than 100 characters is acquired, no audio
\* acquirer is invoked and the handler never is at a stage of the audio
\* branch; when it has answered, generateContent was called exactly once, in
\* text mode, whatever it returned.
C8_UsableTranscriptSkipsAudio ==
    /\ [](transcriptText > 100 =>
            /\ AudioCalls = {}
            /\ pc \notin AudioStages
            /\ audioBuffer = Null
            /\ \A i \in DOMAIN genCalls : genCalls[i].mode = "text")
    /\ [](transcriptText > 100 /\ pc = "done" => Len(genCalls) = 1)
    /\ [][pc = "mode" /\ transcriptText > 100 => pc' = "text"]_vars

C8_Witness ==
    /\ pc = "done"
    /\ transcriptText = 101
    /\ Len(genCalls) = 1
    /\ ~genCalls[1].out.ok

\* C9: the transcript strategies are invoked in their order, each at most
\* once, and none is invoked after an earlier one returned a usable
\* transcript.
C9_TranscriptShortCircuit ==
    \A i, j \in TranscriptCalls :
        i < j => /\ Rank(calls[i].name) < Rank(calls[j].name)
                 /\ ~(calls[i].out.len > 100)

C9_Witness ==
    /\ variant = Part001
    /\ pc = "done"
    /\ Len(calls) = 2
    /\ calls[1].name = "YoutubeTranscript" /\ calls[1].out.kind = "threw"
    /\ calls[2].name = "ytdlpSubtitles" /\ calls[2].out.len > 100

\* C10 as claimed: generateContent is never called with more than 19 MiB of
\* audio, and a request whose audio is larger is answered with the size error
\* without any call of generateContent.
C10_Claimed ==
    /\ \A i \in DOMAIN genCalls :
          genCalls[i].mode = "audio" => genCalls[i].size <= 19 * 1024 * 1024
    /\ (pc = "done" /\ audioBuffer # Null /\ audioBuffer > 19 * 1024 * 1024)
       => /\ response.status = 400
          /\ response.body.error = TooLargeMsg
          /\ genCalls = <<>>

CallsOf(name) == {i \in DOMAIN calls : calls[i].name = name}

\* the audio stage is over: generateContent is next, or the answer is sent
AudioStageOver == pc = "audio" \/ (pc = "done" /\ AudioCalls # {})

NoAudioPayload == \A i \in AudioCalls : calls[i].out.kind # "bytes"

\* C12: when no transcript acquirer returned a usable transcript and every
\* audio acquirer was skipped or rejected, the request is answered with
\* status 500 and an error message, and generateContent is never called.
C12_AcquisitionExhausted ==
    /\ [][(pc' = "done" /\ pc \in {"a0", "a1", "a2"}) =>
            (response'.status = 500 /\ response'.body.error # "" /\ Len(genCalls') = 0)]_vars
    /\ [](pc = "done" /\ AudioCalls # {} /\ NoAudioPayload =>
            /\ ~(transcriptText > 100)
            /\ response.status = 500
            /\ response.body.error # ""
            /\ genCalls = <<>>)
    /\ [](pc = "audio" => ~NoAudioPayload /\ audioBuffer # Null)

C12_Witness ==
    /\ variant = Part001
    /\ pc = "done"
    /\ Len(calls) = 5
    /\ NoAudioPayload
    /\ response = Json(500, ErrorBody(ExhaustedMsg))

\* generateContent was called in text mode and threw an error that is no
\* rate limit: no status 429 and no mention of the quota
TextGenerateFailed ==
    \E i \in DOMAIN genCalls :
        /\ genCalls[i].mode = "text"
        /\ ~genCalls[i].out.ok
        /\ genCalls[i].out.status # 429
        /\ ~genCalls[i].out.quota

\* C13 as claimed: when generateContent fails in text mode for another reason
\* than a rate limit, the answer is a success (status 200) that carries the
\* acquired transcript with a placeholder summary and placeholder notes.
C13_Claimed ==
    (pc = "done" /\ TextGenerateFailed)
    => /\ response.status = 200
       /\ response.body.transcript = Acquired(transcriptText)
       /\ response.body.summary # ""
       /\ response.body.notes # NoNotes

----------------------------------------------------------------------------
(* The claims about the normalizer *)

\* the text that generateContent returned, when it returned
Returned == Len(genCalls) = 1 /\ genCalls[1].out.ok

RawText == genCalls[1].out.raw

FixedPlaceholders ==
    { "I've generated the summary, but had trouble formatting it as JSON.",
      "Summary generation failed.",
      "Error parsing AI response." }

\* C14: for every text whose candidate span JSON.parse rejects, extractJson
\* returns a value whose notes are the whole text and whose summary is a fixed
\* placeholder, and the request is answered with status 200 and these fields.
C14_UnparseableDegrades ==
    (pc = "done" /\ Returned /\ ~Parseable(CleanedJson(RawText)))
    => /\ extractJson(variant, RawText).notes = RawNotes(RawText)
       /\ extractJson(variant, RawText).summary \in FixedPlaceholders
       /\ response.status = 200
       /\ response.body.kind = "object"
       /\ response.body.notes = RawNotes(RawText)
       /\ response.body.summary \in FixedPlaceholders

C14_Witness ==
    /\ pc = "done"
    /\ Returned
    /\ RawText = <<"w", "{", "w", "}">>
    /\ response.status = 200
    /\ response.body.notes = RawNotes(<<"w", "{", "w", "}">>)

\* the spans of a text that are a JSON object
ObjectSpans(text) ==
    {sp \in (DOMAIN text) \X (DOMAIN text) :
        sp[1] < sp[2] /\ IsObject(SubSeq(text, sp[1], sp[2]))}

\* sp is the one object of the text: every other object span lies inside it
TheObject(text, sp) ==
    /\ sp \in ObjectSpans(text)
    /\ \A other \in ObjectSpans(text) : sp[1] <= other[1] /\ other[2] <= sp[2]

\* no "{" before the span and no "}" after it
NoBraceAround(text, sp) ==
    /\ \A k \in DOMAIN text : k < sp[1] => text[k] # OpenBrace
    /\ \A k \in DOMAIN text : k > sp[2] => text[k] # CloseBrace

\* C15 as claimed: for every text that is one JSON object with arbitrary
\* tokens before and after it, extractJson returns that object.
C15_Claimed ==
    (pc = "done" /\ Returned)
    => \A sp \in (DOMAIN RawText) \X (DOMAIN RawText) :
          TheObject(RawText, sp)
          => extractJson(variant, RawText) = JsonParse(SubSeq(RawText, sp[1], sp[2]))

\* C15 as amended: for every text that holds a JSON object with no "{" before
\* it and no "}" after it, extractJson returns that object.
C15_ObjectBetweenBraceFreeProse ==
    (pc = "done" /\ Returned)
    => \A sp \in ObjectSpans(RawText) :
          NoBraceAround(RawText, sp)
          => /\ CleanedJson(RawText) = SubSeq(RawText, sp[1], sp[2])
             /\ extractJson(variant, RawText) = JsonParse(SubSeq(RawText, sp[1], sp[2]))

C15_Witness ==
    /\ pc = "done"
    /\ Returned
    /\ RawText = <<"w", "{", "sn", "}">>
    /\ extractJson(variant, RawText) = Summary("ai", ModelNotes, NoTranscript)

\* C16 as claimed: the body of every response with status 200 is an object
\* with a summary that is a string and notes that are a string.
C16_Claimed ==
    (pc = "done" /\ response.status = 200)
    => /\ response.body.kind = "object"
       /\ response.body.summary \notin {"", "nonstring"}
       /\ response.body.notes.src \in {"model", "raw", "placeholder"}

\* C17 as claimed: a request whose Generate call fails with the rate-limit
\* signal, in text or audio mode, is answered 429; a request that is answered
\* 429 had a Generate call that failed with the rate-limit signal.
C17_Claimed ==
    pc = "done"
    => /\ \A i \in DOMAIN genCalls :
             RateLimited(genCalls[i].out) => response.status = 429
       /\ response.status = 429
             => \E i \in DOMAIN genCalls : RateLimited(genCalls[i].out)

\* the response resp to the request req arrives and its status is not 429
RespondsOther(req, resp) == resp.status # 429 /\ Respond(req, resp, MaxRateLimited)

\* C18 as claimed: when a response whose status is not 429 has been handled,
\* the countdown is null, no timer and no effect is pending, and the
\* handling sent no request: nothing is sent until the user clicks.
C18_Claimed ==
    [][(\E req \in InFlight : \E resp \in Responses : RespondsOther(req, resp))
       => /\ retryCountdown' = Null
          /\ timer' = Null
          /\ ~effectPending'
          /\ autoSent' = autoSent]_vars

\* a step that sends a request by Retry Now
SendsManual ==
    \E r \in BagToSet(inflight') :
        r.cause = "manual" /\ CopiesIn(r, inflight') = CopiesIn(r, inflight) + 1

\* C19 as claimed: a click on Retry Now, at any value of the countdown, sends
\* a request in that step, leaves the countdown null with no timer and no
\* effect pending, and neither that step nor a later one of the same cooldown
\* sends an automatic re-submission.
C19_Claimed ==
    /\ [][ClickRetryNow =>
            /\ SendsManual
            /\ retryCountdown' = Null
            /\ timer' = Null
            /\ ~effectPending'
            /\ ~AutoFires]_vars
    /\ [][(cd.manual /\ cd'.manual) => ~AutoFires]_vars

\* C20: a request with a non-empty url, handled while GEMINI_API_KEY is not
\* set, is answered 500 with the error about the key by the first step of the
\* handler: no identifier is extracted, no transcript strategy, no audio
\* acquirer and no Generate call is made.
C20_MissingCredentialFailsFast ==
    (reqUrl # "" /\ ~apiKey /\ pc # "start")
    => /\ pc = "done"
       /\ response = Json(500, ErrorBody(KeyMissingMsg))
       /\ videoId = ""
       /\ calls = <<>>
       /\ genCalls = <<>>
       /\ transcriptText = 0
       /\ audioBuffer = Null

C20_Witness ==
    /\ pc = "done"
    /\ reqUrl = WatchUrl
    /\ ~apiKey
    /\ response.status = 500
    /\ calls = <<>>

DocumentedStatuses == {200, 400, 429, 500}

\* C21 as claimed: no fault leaves the handler unhandled, and the status of
\* the response is one of 200, 400, 429, 500.
C21_Claimed ==
    /\ pc # "crashed"
    /\ pc = "done" => response.status \in DocumentedStatuses

----------------------------------------------------------------------------
(* Part 3: the extraction of the video identifier.

   url.match(/(?:https?:\/\/)?(?:www\.)?(?:youtube\.com\/(?:[^\/\n\s]+\/\S+\/
   |(?:v|e(?:mbed)?)\/|\S*?[?&]v=)|youtu\.be\/)([a-zA-Z0-9_-]{11})/)

   A reference is the sequence of its characters.  The match is computed as
   the regular expression engine computes it: the leftmost start, the
   alternatives in their order, greedy and lazy quantifiers. *)

\* [a-zA-Z0-9_-]
TokenChars ==
    { "a", "b", "c", "d", "e", "f", "g", "h", "i", "j", "k", "l", "m", "n", "o", "p",
      "q", "r", "s", "t", "u", "v", "w", "x", "y", "z", "A", "B", "C", "D", "E", "F",
      "G", "H", "I", "J", "K", "L", "M", "N", "O", "P", "Q", "R", "S", "T", "U", "V",
      "W", "X", "Y", "Z", "0", "1", "2", "3", "4", "5", "6", "7", "8", "9", "_", "-" }

SchemeHttps == <<"h", "t", "t", "p", "s", ":", "/", "/">>
SchemeHttp == <<"h", "t", "t", "p", ":", "/", "/">>
WwwDot == <<"w", "w", "w", ".">>
YoutubeCom == <<"y", "o", "u", "t", "u", "b", "e", ".", "c", "o", "m", "/">>
YoutuBe == <<"y", "o", "u", "t", "u", ".", "b", "e", "/">>

\* the literal lit stands at position i of u
HasAt(u, i, lit) ==
    /\ i >= 1
    /\ i + Len(lit) - 1 <= Len(u)
    /\ SubSeq(u, i, i + Len(lit) - 1) = lit

\* ([a-zA-Z0-9_-]{11}) matches at position i
IdLength == 11

TokenAt(u, i) ==
    /\ i >= 1
    /\ i + IdLength - 1 <= Len(u)
    /\ \A k \in i .. (i + IdLength - 1) : u[k] \in TokenChars

\* \S over the positions a .. b
NonSpace(u, a, b) == \A k \in a .. b : u[k] \notin {" ", "\n", "\t"}

Smallest(S) == CHOOSE k \in S : \A x \in S : k <= x

\* [^\/\n\s]+\/\S+\/ from position j: where the group starts, 0 without
\* match.  The first run ends at the first "/"; \S+ is greedy, so the last
\* "/" that is followed by eleven token characters is taken.
PathAlternative(u, j) ==
    LET slashes == {k \in j .. Len(u) : u[k] = "/"}
        p == IF slashes = {} THEN 0 ELSE Smallest(slashes)
        ends == {k \in (p + 2) .. Len(u) :
                    /\ u[k] = "/"
                    /\ NonSpace(u, p + 1, k - 1)
                    /\ TokenAt(u, k + 1)}
    IN  IF p = 0 \/ p = j \/ ~NonSpace(u, j, p - 1) \/ ends = {} THEN 0
        ELSE (CHOOSE k \in ends : \A x \in ends : x <= k) + 1

\* (?:v|e(?:mbed)?)\/ from position j
EmbedAlternative(u, j) ==
    IF HasAt(u, j, <<"v", "/">>) /\ TokenAt(u, j + 2) THEN j + 2
    ELSE IF HasAt(u, j, <<"e", "m", "b", "e", "d", "/">>) /\ TokenAt(u, j + 6) THEN j + 6
    ELSE IF HasAt(u, j, <<"e", "/">>) /\ TokenAt(u, j + 2) THEN j + 2
    ELSE 0

\* \S*?[?&]v= from position j: \S*? is lazy, so the first place is taken
QueryAlternative(u, j) ==
    LET places == {m \in j .. Len(u) :
                     /\ NonSpace(u, j, m - 1)
                     /\ u[m] \in {"?", "&"}
                     /\ HasAt(u, m + 1, <<"v", "=">>)
                     /\ TokenAt(u, m + 3)}
    IN  IF places = {} THEN 0 ELSE Smallest(places) + 3

\* the host and what follows it, from position h
HostAt(u, h) ==
    IF HasAt(u, h, YoutubeCom)
    THEN LET j == h + Len(YoutubeCom)
         IN  IF PathAlternative(u, j) # 0 THEN PathAlternative(u, j)
             ELSE IF EmbedAlternative(u, j) # 0 THEN EmbedAlternative(u, j)
             ELSE QueryAlternative(u, j)
    ELSE IF HasAt(u, h, YoutuBe) /\ TokenAt(u, h + Len(YoutuBe)) THEN h + Len(YoutuBe)
    ELSE 0

\* after an optional "www."
WwwAt(u, w) ==
    IF HasAt(u, w, WwwDot) /\ HostAt(u, w + Len(WwwDot)) # 0
    THEN HostAt(u, w + Len(WwwDot))
    ELSE HostAt(u, w)

\* the whole expression from position s: where the group starts, 0 without
\* match
MatchAt(u, s) ==
    IF HasAt(u, s, SchemeHttps) /\ WwwAt(u, s + Len(SchemeHttps)) # 0
    THEN WwwAt(u, s + Len(SchemeHttps))
    ELSE IF HasAt(u, s, SchemeHttp) /\ WwwAt(u, s + Len(SchemeHttp)) # 0
    THEN WwwAt(u, s + Len(SchemeHttp))
    ELSE WwwAt(u, s)

\* url.match(regex): the group of the leftmost match
UrlMatch(u) ==
    LET starts == {s \in 1 .. Len(u) : MatchAt(u, s) # 0}
    IN  IF starts = {} THEN [matched |-> FALSE, group |-> <<>>]
        ELSE LET g == MatchAt(u, Smallest(starts))
             IN  [matched |-> TRUE, group |-> SubSeq(u, g, g + IdLength - 1)]

\* a value of the language: a string or null
JsString(chars) == [type |-> "string", chars |-> chars]

\* part_000: return match ? match[1] : null
extractVideoId(u) == IF UrlMatch(u).matched THEN JsString(UrlMatch(u).group)
                     ELSE [type |-> "null", chars |-> <<>>]

\* the handlers: videoId = videoIdMatch ? videoIdMatch[1] : ""
videoIdMatch(u) == IF UrlMatch(u).matched THEN JsString(UrlMatch(u).group) ELSE JsString(<<>>)

\* if (extractedId), if (videoId)
Truthy(v) == v.type = "string" /\ v.chars # <<>>

(* the references *)

Part000 == "part_000"

\* The references given: the watch, short and embed shapes around two
\* identifiers, with and without scheme, www. and query parameters before
\* and after the identifier (one of them a referrer whose value holds
\* slashes), and references of no recognized shape: a shorts link, a link to
\* another site, the empty input.
Refs ==
    LET Id1 == <<"a", "b", "c", "1", "2", "3", "4", "5", "6", "7", "8">>
        Id2 == <<"a", "B", "-", "_", "9", "z", "X", "y", "Q", "0", "k">>
        Ids == {Id1, Id2}
        Schemes == {<<>>, SchemeHttp, SchemeHttps}
        Wwws == {<<>>, WwwDot}
        NoParam == <<>>
        TimeParam == <<"t", "=", "9">>
        FeatureParam == <<"a", "=", "1">>
        ReferrerParam ==
            <<"r", "e", "f", "=", "h", "t", "t", "p", "s", ":", "/", "/", "x", ".", "i", "o">>
            \o <<"/", "b", "l", "o", "g", "/">>
            \o <<"m", "y", "-", "f", "i", "r", "s", "t", "-", "p", "o", "s", "t">>
        ParamsAfter == {NoParam, TimeParam, ReferrerParam}
        ParamsBefore == {NoParam, FeatureParam}
        Amp == <<"&">>
        Question == <<"?">>
        WatchPath == <<"w", "a", "t", "c", "h">>
        EmbedPath == <<"e", "m", "b", "e", "d", "/">>
        ShortsPath == <<"s", "h", "o", "r", "t", "s", "/">>
        OtherSite ==
            <<"h", "t", "t", "p", "s", ":", "/", "/", "e", "x", "a", "m", "p", "l", "e">>
            \o <<".", "c", "o", "m", "/", "v", "i", "d", "e", "o">>
        With(sep, param) == IF param = NoParam THEN <<>> ELSE sep \o param
        Ref(chars, id, shape) == [chars |-> chars, id |-> id, shape |-> shape]
        WatchRefs ==
            { Ref(s \o w \o YoutubeCom \o WatchPath \o Question
                    \o (IF b = NoParam THEN <<>> ELSE b \o Amp) \o <<"v", "=">> \o id
                    \o With(Amp, a),
                  id, "watch") :
                s \in Schemes, w \in Wwws, id \in Ids, b \in ParamsBefore, a \in ParamsAfter }
        ShortRefs ==
            { Ref(s \o w \o YoutuBe \o id \o With(Question, a), id, "short") :
                s \in Schemes, w \in Wwws, id \in Ids, a \in ParamsAfter }
        EmbedRefs ==
            { Ref(s \o w \o YoutubeCom \o EmbedPath \o id \o With(Question, a), id, "embed") :
                s \in Schemes, w \in Wwws, id \in Ids, a \in ParamsAfter }
        OtherRefs ==
            { Ref(SchemeHttps \o WwwDot \o YoutubeCom \o ShortsPath \o Id1, <<>>, "other"),
              Ref(OtherSite, <<>>, "other"),
              Ref(<<>>, <<>>, "other") }
    IN  WatchRefs \cup ShortRefs \cup EmbedRefs \cup OtherRefs

\* the input field or the request body holds a reference
ExtractorInit ==
    /\ ClientInit
    /\ variant \in Variants \cup {Part000}
    /\ session = ApprovedSession
    /\ AccountsOf(session)
    /\ child = "none"
    /\ captionTracks = <<>>
    /\ track = Null
    /\ dl = NoDownload
    /\ reqUrl \in {r.chars : r \in Refs}
    /\ apiKey = TRUE
    /\ ytdlpExists = FALSE
    /\ pc = "extract"
    /\ videoId = JsString(<<>>)
    /\ transcriptText = 0
    /\ audioBuffer = Null
    /\ calls = <<>>
    /\ genCalls = <<>>
    /\ response = NoResponse

\* part_000: const extractedId = extractVideoId(url);
\*           if (extractedId) setVideoId(extractedId);
ClientExtract ==
    /\ pc = "extract"
    /\ variant = Part000
    /\ videoId' = IF Truthy(extractVideoId(reqUrl)) THEN extractVideoId(reqUrl) ELSE videoId
    /\ pc' = "extracted"
    /\ UNCHANGED cvars
    /\ UNCHANGED avars
    /\ UNCHANGED <<variant, session, dl, child, captionTracks, track, reqUrl, apiKey,
                   ytdlpExists, transcriptText, audioBuffer, calls, genCalls, response>>

\* the handlers: videoId = videoIdMatch ? videoIdMatch[1] : ""
ServerExtract ==
    /\ pc = "extract"
    /\ variant \in Variants
    /\ videoId' = videoIdMatch(reqUrl)
    /\ pc' = "extracted"
    /\ UNCHANGED cvars
    /\ UNCHANGED avars
    /\ UNCHANGED <<variant, session, dl, child, captionTracks, track, reqUrl, apiKey,
                   ytdlpExists, transcriptText, audioBuffer, calls, genCalls, response>>

ExtractorNext == ClientExtract \/ ServerExtract

\* the identifier extractors, applied to every reference of Refs
ExtractorSpec == ExtractorInit /\ [][ExtractorNext]_vars

\* the reference that was given
TheRef == CHOOSE r \in Refs : r.chars = reqUrl

\* C22 as claimed: from every reference of a recognized shape the extractor
\* returns the identifier the reference was built around, unchanged; the
\* client-side and the server-side extractor return the same identifier, or
\* both none (null on the client, "" on the server), for every input.
C22_Claimed ==
    /\ (pc = "extracted" /\ TheRef.shape # "other") => videoId = JsString(TheRef.id)
    /\ Truthy(extractVideoId(reqUrl)) \/ Truthy(videoIdMatch(reqUrl))
          => extractVideoId(reqUrl) = videoIdMatch(reqUrl)

\* C23 as claimed: an acquirer or generateContent is called only for a
\* request that carries the session of a user who is approved.
C23_Claimed ==
    (calls # <<>> \/ genCalls # <<>>) => session = ApprovedSession

\* a step that handles the response to a request
Responds == \E req \in InFlight : \E resp \in Responses : Respond(req, resp, MaxRateLimited)

\* C24 as claimed: when the response to a submission has been handled, no
\* other request is in flight and no cooldown runs, loading is false, so
\* the button (disabled while loading with a null countdown) can be clicked.
C24_Claimed ==
    [][(Responds /\ inflight' = EmptyBag /\ retryCountdown' = Null) => ~loading']_vars

\* the transcript strategies the version has and can run for the request
AvailableStrategies ==
    (IF videoId # "" THEN {"YoutubeTranscript"} ELSE {})
    \cup (IF variant \in HasYtDlpSubtitles /\ (variant = Part001 => ytdlpExists)
          THEN {"ytdlpSubtitles"} ELSE {})
    \cup (IF variant = Part001 THEN {"ytdlMetadata"} ELSE {})

\* C25 as claimed: the handler is in the audio branch only when every
\* available transcript strategy was invoked and none returned more than 100
\* characters; a short result of an earlier one does not keep the later ones
\* from being invoked.
C25_Claimed ==
    pc \in AudioStages
    => /\ \A name \in AvailableStrategies : CallsOf(name) # {}
       /\ \A i \in TranscriptCalls : calls[i].out.len <= 100

\* the acquirers after which the version has no other one to try
LastAcquirers ==
    IF variant = Part002 THEN {"ytdlpAudio"} ELSE {"ytdlInfo", "ytdlAudio"}

\* the request was answered 500 because of the acquirers
EndedByAcquirers ==
    /\ pc = "done"
    /\ response.status = 500
    /\ calls # <<>>
    /\ genCalls = <<>>

\* C26 as claimed: the failure of one acquirer never ends the handling: the
\* handler does not stop at a failed acquirer, and a request is answered 500
\* because of the acquirers only when the last one of the version has failed.
C26_Claimed ==
    /\ pc # "crashed"
    /\ EndedByAcquirers
          => /\ calls[Len(calls)].name \in LastAcquirers
             /\ calls[Len(calls)].out.kind \in {"threw", "timeout"}

\* C27 as claimed: no audio download waits for ever: one that neither
\* completes nor fails is ended by the timeout of its acquirer, so the
\* handler is never left waiting for a download.
C27_Claimed ==
    \A i \in DOMAIN calls :
        calls[i].name \in {"ytdlpAudio", "ytdlAudio"} => calls[i].out # Hung

\* C28 as claimed: every network or subprocess operation of the handler is
\* bounded by a timeout of its own, so the handler is never left waiting for
\* an operation that does not settle.
C28_Claimed == pc # "hung"

\* an attempt of a subprocess-based acquirer has ended
SubprocessCalls == CallsOf("ytdlpSubtitles") \cup CallsOf("ytdlpAudio")

\* C29 as claimed: once an attempt of a subprocess-based acquirer has ended,
\* with a result, with a failure or by a timeout, and in particular once the
\* request has been answered, no child process is running.
C29_Claimed ==
    /\ pc \in {"done", "ended"} => child # "running"
    /\ (pc # "hung" /\ \E i \in SubprocessCalls : calls[i].out.kind \in {"text", "bytes"})
          => child = "closed"

\* C30 as claimed: during a cooldown every tick of the timer takes the
\* countdown from its current value, between 1 and 30, to exactly one less,
\* and the countdown never leaves 0..30.
C30_Claimed ==
    [][(/\ Tick => /\ retryCountdown \in 1..CooldownSeconds
                   /\ retryCountdown' = retryCountdown - 1
        /\ retryCountdown' # Null => retryCountdown' \in 0..CooldownSeconds)]_vars

\* C31 as claimed: when the extraction tool is not installed, no strategy
\* spawns it (neither the subtitles strategy nor the audio strategy is
\* attempted) and the handling does not end because of its absence.
C31_Claimed ==
    ~ytdlpExists => (SubprocessCalls = {} /\ pc # "crashed")

\* a payload for generateContent was obtained: a usable transcript, or an
\* audio buffer that the size check of the version, where it has one, accepts
PayloadObtained ==
    \/ Usable(transcriptText)
    \/ /\ audioBuffer # Null
       /\ variant \in ChecksSize => audioBuffer <= MaxAudioBytes

C33_Claimed ==
    (pc = "done" /\ response.body.transcript.from # "absent")
        => \/ response.body.transcript.from = "acquired" /\ Usable(transcriptText)
           \/ /\ response.body.transcript.from = "model"
              /\ genCalls # <<>>
              /\ genCalls[1].mode = "audio"
              /\ Parseable(CleanedJson(RawText))

\* C34: the transcript part of a text prompt is a prefix of the acquired
\* transcript: the whole of it up to 15,000 characters, never more than
\* 20,000, and when it is cut, cut at 15,000 or at 20,000; a transcript of
\* any length above the threshold leads to one text-mode call, and the
\* answer to a call that returned is 200 whether or not the prompt was cut.
C34_PromptWithinBudget ==
    /\ \A i \in DOMAIN genCalls :
         genCalls[i].mode = "text"
            => /\ genCalls[i].size <= transcriptText
               /\ genCalls[i].size <= 20000
               /\ transcriptText <= 15000 => genCalls[i].size = transcriptText
               /\ genCalls[i].size < transcriptText => genCalls[i].size \in {15000, 20000}
    /\ (pc = "done" /\ Usable(transcriptText))
          => /\ Len(genCalls) = 1
             /\ genCalls[1].mode = "text"
             /\ genCalls[1].out.ok => response.status = 200

C34_Witness ==
    /\ pc = "done"
    /\ Len(genCalls) = 1
    /\ genCalls[1].mode = "text"
    /\ genCalls[1].size < transcriptText
    /\ response.status = 200

\* the third transcript strategy was attempted
MetadataCalls == CallsOf("ytdlMetadata")

\* C35: a track that is fetched is the first of the list whose language code
\* is 'en', or the first of the list when no track has that code; whenever
\* the list was read and is not empty a track is fetched; with an empty list
\* no track is fetched and the strategy leaves the transcript empty.
C35_EnglishTrackPreferred ==
    /\ track > 0 =>
          /\ track \in DOMAIN captionTracks
          /\ \/ /\ captionTracks[track] = "en"
                /\ \A j \in 1 .. (track - 1) : captionTracks[j] # "en"
             \/ /\ track = 1
                /\ \A j \in DOMAIN captionTracks : captionTracks[j] # "en"
    /\ track = 0 => captionTracks = <<>>
    /\ captionTracks = <<>> =>
          /\ track \in {Null, 0}
          /\ \A i \in MetadataCalls : calls[i].out.kind \notin {"text"} /\ transcriptText = 0
    /\ MetadataCalls = {} => track = Null

C35_Witness ==
    /\ Len(captionTracks) = 3
    /\ captionTracks[1] = "fr"
    /\ captionTracks[2] = "en-US"
    /\ captionTracks[3] = "en"
    /\ track = 3
    /\ transcriptText = 101

\* the response handled is a 429
Responds429 ==
    \E req \in InFlight : \E resp \in Responses :
        resp.status = 429 /\ Respond(req, resp, MaxRateLimited)

\* C36 as claimed: handling a 429 response, whatever its body, leaves the
\* error status as it was.
C36_Claimed == [][(Responds429) => error' = error]_vars

\* the first of the events end, error and timeout of the download
FirstTerminal ==
    LET ends == {i \in DOMAIN dl.events : dl.events[i] # "data"}
    IN  IF ends = {} THEN 0 ELSE CHOOSE i \in ends : \A j \in ends : i <= j

\* C37: the promise of a library-based download is pending until the first
\* of end, error and timeout, and then holds the outcome of that event: the
\* chunks received so far in their order, or the rejection; once settled it
\* never changes, whatever fires later, the timer included.
C37_SettlesOnce ==
    /\ [](dl.promise = "pending" <=> FirstTerminal = 0)
    /\ [](FirstTerminal # 0 =>
            /\ dl.promise = (IF dl.events[FirstTerminal] = "end" THEN "resolved" ELSE "rejected")
            /\ dl.promise = "rejected" => dl.reason = dl.events[FirstTerminal]
            /\ dl.promise = "resolved" =>
                  /\ Len(dl.value) = FirstTerminal - 1
                  /\ dl.value = dl.chunks)
    /\ [][(dl.promise # "pending")
            => (dl'.promise = dl.promise /\ dl'.value = dl.value /\ dl'.reason = dl.reason)]_vars

C37_Witness ==
    /\ dl.promise = "resolved"
    /\ dl.value = <<"a", "b">>
    /\ dl.events = <<"data", "data", "end", "timeout">>

\* the request was answered from the text branch with a result, not an error
TextResult ==
    /\ pc = "done"
    /\ genCalls # <<>>
    /\ genCalls[1].mode = "text"
    /\ response.body.error = ""

\* C38: a result of the text branch, whether the model output was parsed,
\* degraded by the fallback or replaced after a failed call, carries the
\* acquired transcript in its full length: not the prefix sent in the
\* prompt, not a transcript of the model output, not a placeholder.
C38_TranscriptIsAcquired ==
    TextResult => response.body.transcript = Acquired(transcriptText)

\* the prompt was cut and the model output has a transcript key of its own
C38_Witness ==
    /\ TextResult
    /\ genCalls[1].size < transcriptText
    /\ genCalls[1].out.ok
    /\ RawText = <<"{", "snt", "}">>
    /\ response.status = 200

\* the answer of the last operation, when it was op for user with status
Answered(op, user, status) ==
    reply = [op |-> op, user |-> user, status |-> status]

\* C39: nobody holds a session before an administrator has approved them
\* (the administrator of the deployed table apart).  A registration that
\* inserts a row inserts it with role "user" and isApproved false, and a
\* registration of an email that has a row changes no row and is rejected;
\* a sign-in succeeds only for a row that exists, whose password matches and
\* whose isApproved is true; and isApproved of a row changes only in a PATCH
\* sent with the session of an administrator.
C39_NoSessionBeforeApproval ==
    /\ [](\A t \in tokens : t.user \in approved \cup {"root"})
    /\ [][(/\ \A e \in DOMAIN users :
                (users[e] = NoUser /\ users'[e] # NoUser) =>
                    /\ users'[e].role = "user" /\ ~users'[e].isApproved
                    /\ reply' = [op |-> "register", user |-> e, status |-> 201]
           /\ \A e \in DOMAIN users : \A p \in {"p", "q"} : \A seen \in BOOLEAN :
                (Register(e, p, seen) /\ users[e] # NoUser) =>
                    users' = users /\ reply'.status \in {400, 500}
           /\ \A e \in DOMAIN users \cup {""} : \A p \in {"", "p", "q", "r"} :
                (authorize(e, p) /\ reply'.status = 200) =>
                    /\ e # "" /\ users[e] # NoUser
                    /\ users[e].password = Hash(p) /\ users[e].isApproved
                    /\ tokens' \ tokens \subseteq
                         {[user |-> e, role |-> users[e].role, isApproved |-> TRUE]}
           /\ (\E e \in DOMAIN users :
                 users[e] # NoUser /\ users'[e].isApproved # users[e].isApproved) =>
                    \E t \in tokens : \E u \in DOMAIN users : \E b \in BOOLEAN :
                        t.role = "admin" /\ PATCH(t, u, b)
           /\ tokens' # tokens => \E e \in DOMAIN users : \E p \in {"p", "q", "r"} :
                authorize(e, p))]_vars

\* "a" registered, was approved and has just signed in; "b" is registered
\* and not approved
C39_Witness ==
    /\ Answered("signin", "a", 200)
    /\ "a" \in approved /\ \E t \in tokens : t.user = "a"
    /\ users["b"] # NoUser /\ ~users["b"].isApproved

\* C40: after an administrator has set a user's isApproved to false, the
\* dashboard is not rendered for that user any more, whichever session the
\* request carries: the dashboard is rendered only for a user whose
\* isApproved is true at that time.
C40_Claimed ==
    \A u \in DOMAIN users :
        Answered("dashboard", u, 200) => users[u].isApproved

====
